---- MODULE Spec2Model ----
(***************************************************************************)
(* Recording / transcription / summary pipeline of the AI Meeting          *)
(* Assistant (src/ui/main_window.py and the components it drives).         *)
(*                                                                         *)
(* Threads of the program and how they appear here:                        *)
(*   - the Qt UI thread: one action per slot of MainWindow; slots reached  *)
(*     through a cross-thread signal take their argument from the head of  *)
(*     uiQueue (Qt delivers queued signals in posting order);              *)
(*   - AudioRecordingThread.run: the at_pc program counter;                *)
(*   - the PortAudio callback thread: DeviceCallback;                      *)
(*   - one TranscriptionWorker per live chunk: the set workers;            *)
(*   - SummaryProcessingThread.run: the sum_pc program counter.            *)
(* External services (Whisper, the LLM, the database, the sound device)    *)
(* answer nondeterministically: each call draws an outcome.                *)
(***************************************************************************)
EXTENDS Integers, Sequences, FiniteSets, TLC

\* ------------------------------------------------------------------ bounds
MaxSessions == 2   \* recordings started in one run of the program
MaxChunks == 2     \* chunks the device delivers in one run
MaxFaults == 1     \* failures of the device, a backend, the LLM or the database in one run
MaxWords == 2      \* words in a due-date string
MaxItems == 2      \* raw items in an LLM answer

\* ---------------------------------------------------------------- constants
None == "None"     \* Python's None, where a string is expected
NoId == 0          \* Python's None, where a meeting id is expected

\* What a call to an external service can do.
Outcomes == {"ok", "empty", "fail"}        \* text, no speech found, internal failure
LlmOutcomes == {"json", "notjson", "raise"}
ChunkKinds == {"speech", "zero"}           \* a chunk with signal, an all-zero chunk

VARIABLES
  \* configuration and environment (utils/config.py, local_whisper.py)
  use_local_whisper,        \* config_manager.config.ai.use_local_whisper
  faster_whisper_available, \* FASTER_WHISPER_AVAILABLE
  \* MainWindow
  recording, current_meeting_id, full_transcript, processing_summary,
  transcript_display,       \* live transcript: the texts appended, in order
  summary_display,          \* what display_summary last showed (None: nothing)
  ui_pc,                    \* "idle", or "stop_wait": inside stop_recording, blocked in wait()
  uiQueue,                  \* queued cross-thread signals for the UI thread
  \* AudioRecordingThread of the current session, and its AudioCapture
  at_pc, running, chunks,
  is_recording, stream, cap_callback, frames,
  wav_file,                 \* AudioCapture._wav_file: "none", or "open" when a save path was given
  \* TranscriptionWorker threads in flight
  workers,
  \* SummaryProcessingThread
  sum_pc, sum_thread,
  \* Database
  db_meetings, db_transcripts, db_summaries, db_action_items,
  \* history: what happened, for stating the properties
  session,                  \* number of recordings started so far
  faults,                   \* number of failures injected so far
  delivered,                \* chunks the device has delivered so far
  sess,                     \* per recording: what its stop did
  calls,                    \* every backend / engine call made
  read_chunks,              \* << the chunk buffer as get_all_audio read it >>, << >> before
  probe                     \* a backend called on its own: << the call and its result >>

vars == << use_local_whisper, faster_whisper_available,
           recording, current_meeting_id, full_transcript, processing_summary,
           transcript_display, summary_display, ui_pc, uiQueue,
           at_pc, running, chunks, is_recording, stream, cap_callback, frames, wav_file,
           workers, sum_pc, sum_thread,
           db_meetings, db_transcripts, db_summaries, db_action_items,
           session, faults, delivered, sess, calls, read_chunks, probe >>

\* what no step of the pipeline changes
fixedVars == << use_local_whisper, faster_whisper_available, wav_file, probe >>
winVars == << recording, current_meeting_id, full_transcript, processing_summary,
              transcript_display, summary_display, ui_pc >>
audioVars == << at_pc, running, chunks, is_recording, stream, cap_callback, frames >>
sumVars == << sum_pc, sum_thread >>
dbVars == << db_meetings, db_transcripts, db_summaries, db_action_items >>

\* dict.get(key, default)
Get(d, k, default) == IF k \in DOMAIN d THEN d[k] ELSE default

\* ------------------------------------------------------- audio preprocessing
\* A raw chunk as the device delivers it: its position in the recording and
\* whether it carries signal.  chunk_size is 4096 samples (config.py:33).
RawChunk(n, kind) == [n |-> n, kind |-> kind]

\* AudioConfig.chunk_size, the samples of one device chunk, and the
\* frame_length of _trim_silence.
ChunkSize == 4096
FrameLength == 2048

\* Audio handed to AudioProcessor: its number of samples and whether any sample
\* is non-zero.  Audio with signal is taken to be loud throughout.
AudioChunk(length, kind) == [length |-> length, kind |-> kind]

\* np.max(np.abs(audio_data))
Peak(audio) == IF audio.kind = "zero" THEN 0 ELSE 1

\* AudioProcessor._normalize: divides by the peak when it is above zero.
\* `divisor' records what the samples were divided by, if anything.
Normalize(audio) ==
  [length |-> audio.length, kind |-> audio.kind,
   divisor |-> IF Peak(audio) > 0 THEN << Peak(audio) >> ELSE << >>]

\* AudioProcessor._reduce_noise: samples below a tenth of the mean magnitude
\* become zero; all-zero audio and audio loud throughout are left as they are.
ReduceNoise(audio) == audio

\* AudioProcessor._trim_silence: audio of at most frame_length samples is
\* returned as it is; longer audio with no frame above the energy threshold
\* becomes the empty array; audio loud throughout keeps every sample.
TrimSilence(audio) ==
  IF audio.length <= FrameLength THEN audio
  ELSE IF audio.kind = "zero" THEN [audio EXCEPT !.length = 0]
  ELSE audio

\* AudioProcessor.preprocess: normalise, gate, trim.  np.max of an empty array
\* raises, and the except returns the audio as it came.
PreprocessAudio(audio) ==
  IF audio.length = 0
  THEN [length |-> 0, kind |-> audio.kind, divisor |-> << >>]
  ELSE TrimSilence(ReduceNoise(Normalize(audio)))

\* AudioProcessor.preprocess on a chunk of chunk_size samples: an all-zero chunk
\* passes _normalize and _reduce_noise unchanged and, being longer than
\* frame_length, has no frame above the energy threshold, so _trim_silence
\* returns the empty array; a chunk with signal keeps its non-silent span.
Preprocess(raw) ==
  [n |-> raw.n, kind |-> raw.kind,
   trimmed_to_empty |-> PreprocessAudio(AudioChunk(ChunkSize, raw.kind)).length = 0]

\* ------------------------------------------------------ transcription backends
\* The text a backend finds in a live chunk.
Words == << "w1", "w2", "w3", "w4" >>
ChunkText(c) == Words[((c.n - 1) % Len(Words)) + 1]
FullText == "full text"

\* WhisperTranscriber.transcribe_file: the dict it returns.
WhisperTranscribeFile(outcome) ==
  CASE outcome = "ok"    -> [text |-> FullText, segments |-> << "seg" >>]
    [] outcome = "empty" -> [text |-> "", segments |-> << >>]
    [] outcome = "fail"  -> [text |-> "Error transcribing audio: e", segments |-> << >>]

\* WhisperTranscriber.transcribe_chunk.
WhisperTranscribeChunk(c, outcome) ==
  CASE outcome = "ok"    -> [text |-> ChunkText(c), segments |-> << "seg" >>]
    [] outcome = "empty" -> [text |-> "", segments |-> << >>]
    [] outcome = "fail"  -> [text |-> "", segments |-> << >>]

\* LocalWhisperTranscriber.transcribe_file.
LocalTranscribeFile(available, outcome) ==
  IF ~available
  THEN [text |-> "Local Whisper model is not available. Please use the OpenAI API instead.",
        segments |-> << >>, error |-> "Local model not available"]
  ELSE CASE outcome = "ok"    -> [text |-> FullText, segments |-> << "seg" >>]
         [] outcome = "empty" -> [text |-> "", segments |-> << >>]
         [] outcome = "fail"  -> [text |-> "Error transcribing audio: e", segments |-> << >>]

\* LocalWhisperTranscriber.transcribe_chunk.
LocalTranscribeChunk(available, c, outcome) ==
  IF ~available
  THEN [text |-> "", segments |-> << >>, error |-> "Local model not available"]
  ELSE CASE outcome = "ok"    -> [text |-> ChunkText(c), segments |-> << "seg" >>]
         [] outcome = "empty" -> [text |-> "", segments |-> << >>]
         [] outcome = "fail"  -> [text |-> "", segments |-> << >>]

\* A worker that takes the local transcriber whenever it is configured.
WorkerTranscriber_NoFallback(use_local, available) ==
  IF use_local THEN "local" ELSE "remote"

\* TranscriptionWorker.__init__: the transcriber a live-chunk worker gets.
\* The local one only when it is configured and its runtime loaded.
WorkerTranscriber(use_local, available) ==
  IF use_local
  THEN IF ~available THEN "remote" ELSE "local"
  ELSE "remote"

\* stop_recording, "Choose transcriber based on config": the same choice for
\* the full-file pass.
StopTranscriber(use_local, available) ==
  IF use_local
  THEN IF ~available THEN "remote" ELSE "local"
  ELSE "remote"

TranscribeFile(backend, available, outcome) ==
  IF backend = "local" THEN LocalTranscribeFile(available, outcome)
  ELSE WhisperTranscribeFile(outcome)

TranscribeChunk(backend, available, c, outcome) ==
  IF backend = "local" THEN LocalTranscribeChunk(available, c, outcome)
  ELSE WhisperTranscribeChunk(c, outcome)

\* ------------------------------------------------------------------ engines
\* MeetingSummarizer.summarize: the dict it returns for each behaviour of the
\* LLM call (a JSON answer, an answer that is not JSON, an exception).
Summarize(outcome) ==
  CASE outcome = "json" ->
         [summary |-> "S", action_items |-> << >>, key_points |-> << "k" >>,
          topics |-> << "t" >>, decisions |-> << "d" >>, questions |-> << "q" >>,
          processing_time |-> 1, model_used |-> "gpt"]
    [] outcome = "notjson" ->
         [summary |-> "raw", action_items |-> << >>, key_points |-> << >>,
          processing_time |-> 1, model_used |-> "gpt"]
    [] outcome = "raise" ->
         [summary |-> "Error generating summary: e", action_items |-> << >>,
          key_points |-> << >>, topics |-> << >>,
          processing_time |-> 0, model_used |-> "gpt"]

\* An ActionItem that keeps the assignee it is given.
ActionItem_KeepAssignee(task, assignee, due_date, meeting_id, status) ==
  [task |-> task, assignee |-> assignee,
   due_date |-> due_date, meeting_id |-> meeting_id, status |-> status]

\* ActionItem.__init__
ActionItem(task, assignee, due_date, meeting_id, status) ==
  [task |-> task,
   assignee |-> IF assignee = None \/ assignee = "" THEN "Unassigned" ELSE assignee,
   due_date |-> due_date, meeting_id |-> meeting_id, status |-> status]

\* ------------------------------------------------------------- due dates
\* A due-date string is the sequence of its words (split at single spaces).
\* A point in time is a day number (day 0 is a Monday) and a time of day:
\* "clock" (the time of the call), "eod" (23:59:59) or "midnight".
DayNames == << "monday", "tuesday", "wednesday", "thursday", "friday", "saturday", "sunday" >>
DateWords == {"2024-01-15", "15/01/2024", "99/99/2024"}
Vocabulary ==
  {"today", "TODAY", "tomorrow", "next", "week", "month", "by", "Friday",
   "Not", "specified", "None", "Unspecified"}
    \cup { DayNames[d] : d \in 1..7 } \cup DateWords

\* re.IGNORECASE
Lower(w) ==
  CASE w = "TODAY" -> "today"
    [] w = "Friday" -> "friday"
    [] w = "Not" -> "not"
    [] w = "None" -> "none"
    [] w = "Unspecified" -> "unspecified"
    [] OTHER -> w

\* re.search(r'\bword\b', date_string, re.IGNORECASE)
HasWord(words, w) == \E i \in 1..Len(words) : Lower(words[i]) = w

\* re.search(r'\bnext week\b', ...): the two words side by side
HasPhrase(words, a, b) ==
  \E i \in 1..(Len(words) - 1) : Lower(words[i]) = a /\ Lower(words[i + 1]) = b

\* date_string in ["Not specified", "None", "Unspecified", ""]
Sentinels == { << "Not", "specified" >>, << "None" >>, << "Unspecified" >>, << >> }

\* datetime.fromisoformat on the whole string: << the date >>, or << >> for a
\* ValueError.
FromIsoFormat(words) ==
  IF Len(words) = 1 /\ words[1] = "2024-01-15"
  THEN << [day |-> 14, tod |-> "midnight"] >>
  ELSE << >>

\* The date-format loop: the first date-like substring is tried with each
\* format; << >> when there is none or no format fits it.
DateScan(words) ==
  IF \E i \in 1..Len(words) : words[i] \in DateWords
  THEN LET first == CHOOSE i \in 1..Len(words) :
                      /\ words[i] \in DateWords
                      /\ \A j \in 1..(i - 1) : words[j] \notin DateWords
       IN IF words[first] \in {"2024-01-15", "15/01/2024"}
          THEN << [day |-> 14, tod |-> "midnight"] >>
          ELSE << >>
  ELSE << >>

\* A weekday rule that keeps the current day.
DaysAhead_SameDay(day_num, current_day) ==
  (day_num - current_day) % 7

\* days_ahead = (day_num - current_day) % 7, and 7 when that is 0
DaysAhead(day_num, current_day) ==
  LET days_ahead == (day_num - current_day) % 7
  IN IF days_ahead = 0 THEN 7 ELSE days_ahead

\* The first weekday of day_mapping, in its order, that the string names.
FirstDayNamed(words) ==
  CHOOSE d \in 1..7 : HasWord(words, DayNames[d])
                      /\ \A e \in 1..(d - 1) : ~HasWord(words, DayNames[e])

EndOfDay(now, days) == << [day |-> now.day + days, tod |-> "eod"] >>
Later(now, days) == << [day |-> now.day + days, tod |-> now.tod] >>

\* A parser that looks for weekday names before the relative words.
ParseDueDate_WeekdayFirst(words, now) ==
  IF words \in Sentinels THEN << >>
  ELSE IF FromIsoFormat(words) # << >> THEN FromIsoFormat(words)
  ELSE IF \E d \in 1..7 : HasWord(words, DayNames[d])
       THEN EndOfDay(now, DaysAhead(FirstDayNamed(words) - 1, now.day % 7))
  ELSE IF HasWord(words, "today") THEN EndOfDay(now, 0)
  ELSE IF HasWord(words, "tomorrow") THEN EndOfDay(now, 1)
  ELSE IF HasPhrase(words, "next", "week") THEN Later(now, 7)
  ELSE IF HasPhrase(words, "next", "month") THEN Later(now, 30)
  ELSE DateScan(words)

\* ActionItemExtractor._parse_due_date for a string: << the date >>, or << >>
\* for None.
ParseDueDate(words, now) ==
  IF words \in Sentinels THEN << >>
  ELSE IF FromIsoFormat(words) # << >> THEN FromIsoFormat(words)
  ELSE IF HasWord(words, "today") THEN EndOfDay(now, 0)
  ELSE IF HasWord(words, "tomorrow") THEN EndOfDay(now, 1)
  ELSE IF HasPhrase(words, "next", "week") THEN Later(now, 7)
  ELSE IF HasPhrase(words, "next", "month") THEN Later(now, 30)
  ELSE IF \E d \in 1..7 : HasWord(words, DayNames[d])
       THEN EndOfDay(now, DaysAhead(FirstDayNamed(words) - 1, now.day % 7))
  ELSE DateScan(words)

\* A JSON value of the "due_date" key: null, or a string.
JsonNull == [null |-> TRUE, words |-> << >>]
JsonString(words) == [null |-> FALSE, words |-> words]

\* An extractor that takes the items of an answer that did not parse.
ExtractItems_KeepUnparsed(outcome, raw_items, meeting_id, now) ==
  IF outcome = "raise" THEN << >>
  ELSE IF \E i \in 1..Len(raw_items) :
            Get(raw_items[i], "due_date", JsonString(<< "Not", "specified" >>)).null
       THEN << >>
       ELSE [i \in 1..Len(raw_items) |->
               ActionItem(Get(raw_items[i], "task", ""),
                          Get(raw_items[i], "assignee", "Unassigned"),
                          ParseDueDate(Get(raw_items[i], "due_date",
                                           JsonString(<< "Not", "specified" >>)).words, now),
                          meeting_id, "pending")]

\* ActionItemExtractor.extract_action_items for an LLM call that answered JSON
\* with these raw items, answered something that is not JSON, or raised.
\* A null due date makes _parse_due_date raise (re.search on None), which
\* the outer except turns into the empty list.
ExtractItems(outcome, raw_items, meeting_id, now) ==
  IF outcome = "raise" THEN << >>
  ELSE LET raw == IF outcome = "notjson" THEN << >> ELSE raw_items IN
       IF \E i \in 1..Len(raw) :
            Get(raw[i], "due_date", JsonString(<< "Not", "specified" >>)).null
       THEN << >>
       ELSE [i \in 1..Len(raw) |->
               ActionItem(Get(raw[i], "task", ""),
                          Get(raw[i], "assignee", "Unassigned"),
                          ParseDueDate(Get(raw[i], "due_date",
                                           JsonString(<< "Not", "specified" >>)).words, now),
                          meeting_id, "pending")]

\* The answer and the clock of the recordings modelled: one item with a task.
SampleItems == << [task |-> "task"] >>
SampleNow == [day |-> 0, tod |-> "clock"]

\* ActionItemExtractor.extract_action_items: one ActionItem per raw item of a
\* JSON answer; the empty list for an answer that is not JSON or a failed call.
ExtractActionItems(outcome, meeting_id) ==
  ExtractItems(outcome, SampleItems, meeting_id, SampleNow)

\* ----------------------------------------------------------------- database
\* A JSON column: NULL (the empty tuple) for a missing or empty list,
\* otherwise the serialized list ("json.dumps(x) if x else None").
JsonColumn(list) == IF list = << >> THEN << >> ELSE << list >>

\* Database.create_meeting: the id of the new row.
NewMeetingId == Cardinality(db_meetings) + 1

\* Database.create_transcript: one transcript per meeting, replaced if present;
\* nothing is written for an unknown meeting.
CreateTranscript(meetings, transcripts, meeting_id, full_text) ==
  IF meeting_id \notin meetings THEN transcripts
  ELSE { t \in transcripts : t.meeting_id # meeting_id }
         \cup { [meeting_id |-> meeting_id, full_text |-> full_text] }

\* Database.create_summary: one summary per meeting, replaced if present.
CreateSummary(meetings, summaries, meeting_id, summary_text, key_points, topics, decisions, questions) ==
  IF meeting_id \notin meetings THEN summaries
  ELSE { x \in summaries : x.meeting_id # meeting_id }
         \cup { [meeting_id |-> meeting_id, summary_text |-> summary_text,
                 key_points |-> JsonColumn(key_points), topics |-> JsonColumn(topics),
                 decisions |-> JsonColumn(decisions), questions |-> JsonColumn(questions)] }

\* Database.create_action_item, once per extracted item, in order.
CreateActionItems(meetings, rows, meeting_id, items) ==
  IF meeting_id \notin meetings THEN rows
  ELSE rows \o [i \in 1..Len(items) |->
                  [meeting_id |-> meeting_id, task |-> items[i].task,
                   assignee |-> items[i].assignee, due_date |-> items[i].due_date,
                   status |-> items[i].status]]

\* Database.get_transcript(...).full_text, "" when there is none (load_meeting).
TranscriptOf(transcripts, meeting_id) ==
  IF \E t \in transcripts : t.meeting_id = meeting_id
  THEN (CHOOSE t \in transcripts : t.meeting_id = meeting_id).full_text
  ELSE ""

\* ------------------------------------------------------------ initial state
NoThread == [sess |-> 0, meeting_id |-> NoId, transcript |-> "",
             summary_data |-> << >>, action_items |-> << >>]
NoSession == [file |-> "none", meeting |-> NoId, silent |-> FALSE, stopped |-> FALSE,
              error |-> FALSE, summary_runs |-> 0, summarize |-> "none",
              announced |-> 0, live |-> << >>]

Init ==
  /\ use_local_whisper \in BOOLEAN
  /\ faster_whisper_available \in BOOLEAN
  /\ recording = FALSE
  /\ current_meeting_id = NoId
  /\ full_transcript = ""
  /\ processing_summary = FALSE
  /\ transcript_display = ""
  /\ summary_display = None
  /\ ui_pc = "idle"
  /\ uiQueue = << >>
  /\ at_pc = "none"
  /\ running = FALSE
  /\ chunks = << >>
  /\ is_recording = FALSE
  /\ stream = "none"
  /\ cap_callback = FALSE
  /\ frames = << >>
  /\ wav_file = "none"
  /\ workers = {}
  /\ sum_pc = "none"
  /\ sum_thread = NoThread
  /\ db_meetings = {}
  /\ db_transcripts = {}
  /\ db_summaries = {}
  /\ db_action_items = << >>
  /\ session = 0
  /\ faults = 0
  /\ delivered = 0
  /\ sess = << >>
  /\ calls = {}
  /\ read_chunks = << >>
  /\ probe = << >>

\* The process runs until Qt ends it.
Alive == ui_pc # "aborted"

\* A queued signal: its name, its argument, and the recording it stems from.
Signal(sig, arg, s) == [sig |-> sig, arg |-> arg, sess |-> s]
HeadIs(sig) == ui_pc = "idle" /\ uiQueue # << >> /\ Head(uiQueue).sig = sig

\* --------------------------------------------------------- MainWindow: start
\* A wait() that returns at once.
WaitReturns_NoWait == TRUE

\* QThread.wait() in AudioRecordingThread.stop returns once run() has returned.
WaitReturns == at_pc = "finished"

\* start_recording: refused only while self.recording is set.
CanStart == ~recording

StartRecording ==
  /\ ui_pc = "idle"
  /\ session < MaxSessions
  /\ CanStart
  /\ transcript_display' = ""
  /\ full_transcript' = ""
  /\ recording' = TRUE
  \* a new AudioRecordingThread, with its own AudioCapture, is started
  /\ at_pc' = "created"
  /\ running' = FALSE
  /\ chunks' = << >>
  /\ is_recording' = FALSE
  /\ stream' = "none"
  /\ cap_callback' = FALSE
  /\ frames' = << >>
  /\ session' = session + 1
  /\ sess' = Append(sess, NoSession)
  /\ read_chunks' = << >>
  /\ UNCHANGED << fixedVars, current_meeting_id, processing_summary, summary_display,
                  ui_pc, uiQueue, workers, sumVars, dbVars, faults, delivered, calls >>

\* A failure of the environment is injected while the budget lasts.
Inject(failed) ==
  /\ failed => faults < MaxFaults
  /\ faults' = IF failed THEN faults + 1 ELSE faults

\* ------------------------------------------------- AudioRecordingThread.run
\* run(): self.running = True
AudioRun ==
  /\ at_pc = "created"
  /\ running' = TRUE
  /\ at_pc' = "open"
  /\ UNCHANGED << fixedVars, winVars, uiQueue, chunks, is_recording, stream, cap_callback,
                  frames, workers, sumVars, dbVars, session, faults, delivered, sess, calls,
                  read_chunks >>

\* run() after a failed start or an exception: error_occurred is emitted and
\* the thread ends.
AudioThreadFails ==
  /\ at_pc' = "finished"
  /\ uiQueue' = Append(uiQueue, Signal("audio_error", None, session))

\* AudioCapture.start_recording: self.audio.open(...)
CaptureOpen ==
  /\ at_pc = "open"
  /\ \/ /\ Inject(FALSE)
        /\ stream' = "open"
        /\ at_pc' = "start_stream"
        /\ UNCHANGED uiQueue
     \/ /\ Inject(TRUE)
        /\ AudioThreadFails
        /\ UNCHANGED stream
  /\ UNCHANGED << fixedVars, winVars, running, chunks, is_recording, cap_callback, frames,
                  workers, sumVars, dbVars, session, delivered, sess, calls, read_chunks >>

\* AudioCapture.start_recording: self.stream.start_stream(); self.is_recording = True
CaptureStartStream ==
  /\ at_pc = "start_stream"
  /\ \/ /\ Inject(FALSE)
        /\ is_recording' = TRUE
        /\ at_pc' = "set_callback"
        /\ UNCHANGED uiQueue
     \/ /\ Inject(TRUE)
        /\ AudioThreadFails
        /\ UNCHANGED is_recording
  /\ UNCHANGED << fixedVars, winVars, running, chunks, stream, cap_callback, frames,
                  workers, sumVars, dbVars, session, delivered, sess, calls, read_chunks >>

\* AudioCapture.start_recording: self._callback = callback
CaptureSetCallback ==
  /\ at_pc = "set_callback"
  /\ cap_callback' = TRUE
  /\ at_pc' = "reset_frames"
  /\ UNCHANGED << fixedVars, winVars, uiQueue, running, chunks, is_recording, stream, frames,
                  workers, sumVars, dbVars, session, faults, delivered, sess, calls, read_chunks >>

\* AudioCapture.start_recording: self._frames = []; return True
CaptureResetFrames ==
  /\ at_pc = "reset_frames"
  /\ frames' = << >>
  /\ at_pc' = "loop"
  /\ UNCHANGED << fixedVars, winVars, uiQueue, running, chunks, is_recording, stream,
                  cap_callback, workers, sumVars, dbVars, session, faults, delivered, sess, calls,
                  read_chunks >>

\* run(): the loop ends once running is cleared; AudioCapture.stop_recording
\* clears is_recording, then stops and closes the stream (which may raise).
AudioLoopExit ==
  /\ at_pc = "loop"
  /\ ~running
  /\ is_recording' = FALSE
  /\ \/ /\ Inject(FALSE)
        /\ stream' = "none"
        /\ at_pc' = "finished"
        /\ UNCHANGED uiQueue
     \/ /\ Inject(TRUE)
        /\ AudioThreadFails
        /\ UNCHANGED stream
  /\ UNCHANGED << fixedVars, winVars, running, chunks, cap_callback, frames,
                  workers, sumVars, dbVars, session, delivered, sess, calls, read_chunks >>

\* AudioCapture._audio_callback on the device thread, and through it
\* AudioRecordingThread's audio_callback: the chunk is preprocessed, stored and
\* signalled to the UI thread.
DeviceCallback ==
  /\ stream = "open"
  /\ is_recording
  /\ delivered < MaxChunks
  /\ \E kind \in ChunkKinds :
       LET raw == RawChunk(delivered + 1, kind) IN
         /\ frames' = Append(frames, raw)
         /\ IF cap_callback
            THEN /\ chunks' = Append(chunks, Preprocess(raw))
                 /\ uiQueue' = Append(uiQueue, Signal("audio_chunk_ready", Preprocess(raw), session))
            ELSE UNCHANGED << chunks, uiQueue >>
  /\ delivered' = delivered + 1
  /\ UNCHANGED << fixedVars, winVars, at_pc, running, is_recording, stream, cap_callback,
                  workers, sumVars, dbVars, session, faults, sess, calls, read_chunks >>

\* ---------------------------------------------------------- MainWindow: stop
\* stop_recording up to AudioRecordingThread.stop(): running is cleared and the
\* UI thread blocks in wait().
StopBegin ==
  /\ running' = FALSE
  /\ ui_pc' = "stop_wait"

\* The stop button, the stop action or toggle_recording while recording.
StopRecording ==
  /\ ui_pc = "idle"
  /\ recording
  /\ StopBegin
  /\ UNCHANGED << fixedVars, recording, current_meeting_id, full_transcript,
                  processing_summary, transcript_display, summary_display, uiQueue,
                  at_pc, chunks, is_recording, stream, cap_callback, frames,
                  workers, sumVars, dbVars, session, faults, delivered, sess, calls, read_chunks >>

\* handle_audio_error: a warning, then stop_recording (which returns at once
\* when nothing is being recorded).
HandleAudioError ==
  /\ HeadIs("audio_error")
  /\ uiQueue' = Tail(uiQueue)
  /\ IF recording THEN StopBegin ELSE UNCHANGED << running, ui_pc >>
  /\ UNCHANGED << fixedVars, recording, current_meeting_id, full_transcript,
                  processing_summary, transcript_display, summary_display,
                  at_pc, chunks, is_recording, stream, cap_callback, frames,
                  workers, sumVars, dbVars, session, faults, delivered, sess, calls, read_chunks >>

\* Where stop_recording can raise between reading the audio and the end.
StopFaults == {"none", "wave", "create_meeting", "create_transcript"}

\* process_summary: nothing happens without a meeting, without transcript
\* text, or while a summary is being processed.
SummaryStarts(meeting_id, transcript, busy) ==
  ~(meeting_id = NoId \/ transcript = "" \/ busy)

\* stop_recording from get_all_audio() on, for a recording with audio: the
\* temporary WAV file, the full-file transcription, the Meeting and Transcript
\* rows and process_summary; the except branch on a fault.
StopProcess(outcome, fault) ==
  LET backend == StopTranscriber(use_local_whisper, faster_whisper_available)
      result == TranscribeFile(backend, faster_whisper_available, outcome)
      text == Get(result, "text", "")
      id == NewMeetingId
      transcribed == fault # "wave"
      meetingMade == fault \notin {"wave", "create_meeting"}
      done == fault = "none"
      starts == done /\ SummaryStarts(id, text, processing_summary)
  IN
  /\ Inject(fault # "none" \/ (transcribed /\ outcome = "fail"))
  /\ calls' = IF transcribed
              THEN calls \cup { [op |-> "transcribe_file", backend |-> backend,
                                 thread |-> "ui"] }
              ELSE calls
  /\ full_transcript' = IF transcribed THEN text ELSE full_transcript
  /\ db_meetings' = IF meetingMade THEN db_meetings \cup {id} ELSE db_meetings
  /\ db_transcripts' = IF done
                       THEN CreateTranscript(db_meetings', db_transcripts, id, text)
                       ELSE db_transcripts
  /\ current_meeting_id' = IF done THEN id ELSE current_meeting_id
  /\ processing_summary' = (processing_summary \/ starts)
  /\ IF starts
     THEN /\ sum_pc' = "summarize"
          /\ sum_thread' = [sess |-> session, meeting_id |-> id, transcript |-> text,
                            summary_data |-> << >>, action_items |-> << >>]
     ELSE UNCHANGED sumVars
  /\ sess' = [sess EXCEPT ![session] =
                [@ EXCEPT !.file = IF transcribed THEN outcome ELSE "none",
                          !.meeting = IF meetingMade THEN id ELSE NoId,
                          !.silent = \A i \in 1..Len(chunks) : chunks[i].kind = "zero",
                          !.stopped = TRUE,
                          !.error = ~done,
                          !.summary_runs = IF starts THEN 1 ELSE 0]]

\* process_summary keeps the SummaryProcessingThread it starts in a local
\* variable only: when it returns, the last reference to the running QThread
\* is gone.  Either the thread lives on and runs to its end, or the object is
\* destroyed while running and Qt ends the process there, inside
\* stop_recording.
ThreadObjectOutcomes == {"lives", "destroyed"}

\* A get_all_audio that never returns None.
GetAllAudioIsNone_Never(stored) == FALSE

\* AudioRecordingThread.get_all_audio returns None when no chunk was stored.
GetAllAudioIsNone(stored) == stored = << >>

\* stop_recording once wait() has returned.
StopFinish ==
  /\ ui_pc = "stop_wait"
  /\ WaitReturns
  /\ read_chunks' = << chunks >>
  /\ IF GetAllAudioIsNone(chunks)
     THEN \* all_audio is None
          /\ sess' = [sess EXCEPT ![session].stopped = TRUE]
          /\ UNCHANGED << calls, full_transcript, dbVars, current_meeting_id,
                          processing_summary, sumVars, faults >>
          /\ recording' = FALSE
          /\ ui_pc' = "idle"
     ELSE /\ \E outcome \in Outcomes, fault \in StopFaults : StopProcess(outcome, fault)
          /\ UNCHANGED db_summaries
          /\ UNCHANGED db_action_items
          /\ \E thread_object \in ThreadObjectOutcomes :
               /\ thread_object = "destroyed" => (sum_pc = "none" /\ sum_pc' = "summarize")
               /\ recording' = IF thread_object = "destroyed" THEN recording ELSE FALSE
               /\ ui_pc' = IF thread_object = "destroyed" THEN "aborted" ELSE "idle"
  /\ UNCHANGED << fixedVars, transcript_display, summary_display, uiQueue, audioVars,
                  workers, session, delivered >>

\* ----------------------------------------------------- live transcription
\* process_audio_chunk: ignored unless recording, else a TranscriptionWorker
\* is created and started.
ProcessAudioChunk ==
  /\ HeadIs("audio_chunk_ready")
  /\ uiQueue' = Tail(uiQueue)
  /\ workers' =
       IF recording
       THEN workers \cup
              { [chunk |-> Head(uiQueue).arg,
                 backend |-> WorkerTranscriber(use_local_whisper, faster_whisper_available),
                 sess |-> session] }
       ELSE workers
  /\ UNCHANGED << fixedVars, winVars, audioVars, sumVars, dbVars, session, faults, delivered,
                  sess, calls, read_chunks >>

\* TranscriptionWorker.run: transcription_ready is emitted for a non-empty text.
WorkerRun(w) ==
  /\ Alive
  /\ w \in workers
  /\ \E outcome \in Outcomes :
       LET result == TranscribeChunk(w.backend, faster_whisper_available, w.chunk, outcome)
           transcribed_text == Get(result, "text", "")
       IN
       /\ Inject(outcome = "fail")
       /\ calls' = calls \cup { [op |-> "transcribe_chunk", backend |-> w.backend,
                                 thread |-> "worker"] }
       /\ uiQueue' = IF transcribed_text # ""
                     THEN Append(uiQueue, Signal("transcription_ready", transcribed_text, w.sess))
                     ELSE uiQueue
       /\ sess' = IF transcribed_text # ""
                  THEN [sess EXCEPT ![w.sess].live = Append(@, transcribed_text)]
                  ELSE sess
  /\ workers' = workers \ {w}
  /\ UNCHANGED << fixedVars, winVars, audioVars, sumVars, dbVars, session, delivered,
                  read_chunks >>

\* An update_transcription that puts the new text in front.
Appended_Prepend(current_text, text) ==
  IF text # ""
  THEN IF current_text # "" THEN text \o " " \o current_text ELSE text
  ELSE current_text

\* update_transcription: the text is appended to the live display.
Appended(current_text, text) ==
  IF text # ""
  THEN IF current_text # "" THEN current_text \o " " \o text ELSE text
  ELSE current_text

UpdateTranscription ==
  /\ HeadIs("transcription_ready")
  /\ uiQueue' = Tail(uiQueue)
  /\ transcript_display' = Appended(transcript_display, Head(uiQueue).arg)
  /\ UNCHANGED << fixedVars, recording, current_meeting_id, full_transcript,
                  processing_summary, summary_display, ui_pc,
                  audioVars, workers, sumVars, dbVars, session, faults, delivered, sess, calls,
                  read_chunks >>

\* ------------------------------------------------- SummaryProcessingThread
\* run(): self.summarizer.summarize(...)
SummaryGenerate ==
  /\ Alive
  /\ sum_pc = "summarize"
  /\ \E outcome \in LlmOutcomes :
       /\ Inject(outcome = "raise")
       /\ sum_thread' = [sum_thread EXCEPT !.summary_data = Summarize(outcome)]
       /\ sess' = [sess EXCEPT ![sum_thread.sess].summarize = outcome]
       /\ calls' = calls \cup { [op |-> "summarize", backend |-> "llm", thread |-> "summary"] }
  /\ sum_pc' = "extract"
  /\ UNCHANGED << fixedVars, winVars, uiQueue, audioVars, workers, dbVars, session,
                  delivered, read_chunks >>

\* run(): self.action_item_extractor.extract_action_items(...)
SummaryExtract ==
  /\ sum_pc = "extract"
  /\ \E outcome \in LlmOutcomes :
       /\ Inject(outcome = "raise")
       /\ sum_thread' = [sum_thread EXCEPT
                           !.action_items = ExtractActionItems(outcome, sum_thread.meeting_id)]
       /\ UNCHANGED sess
       /\ calls' = calls \cup { [op |-> "extract_action_items", backend |-> "llm",
                                 thread |-> "summary"] }
  /\ sum_pc' = "persist"
  /\ UNCHANGED << fixedVars, winVars, uiQueue, audioVars, workers, dbVars, session,
                  delivered, read_chunks >>

\* The dict run() hands to the UI.
SummaryResult(summary_data, action_items) ==
  [summary_text |-> Get(summary_data, "summary", ""),
   key_points |-> Get(summary_data, "key_points", << >>),
   topics |-> Get(summary_data, "topics", << >>),
   decisions |-> Get(summary_data, "decisions", << >>),
   action_items |-> action_items]

\* A run() that saves as soon as the summary is there.
PersistReady_Early == sum_pc \in {"extract", "persist"}

\* run(): the database is written once both engine calls have returned.
PersistReady == sum_pc = "persist"

\* Where the database can raise in run().
PersistFaults == {"none", "create_summary", "create_action_item"}

\* run(): create_summary, create_action_item for each item, then summary_ready;
\* error_occurred instead when a database call raises.
SummaryPersist ==
  /\ PersistReady
  /\ \E fault \in PersistFaults :
       LET d == sum_thread.summary_data
           m == sum_thread.meeting_id
           items == sum_thread.action_items
       IN
       /\ Inject(fault # "none")
       /\ fault = "create_action_item" => items # << >>
       /\ db_summaries' =
            IF fault = "create_summary" THEN db_summaries
            ELSE CreateSummary(db_meetings, db_summaries, m, Get(d, "summary", ""),
                               Get(d, "key_points", << >>), Get(d, "topics", << >>),
                               Get(d, "decisions", << >>), Get(d, "questions", << >>))
       /\ db_action_items' =
            IF fault = "none" THEN CreateActionItems(db_meetings, db_action_items, m, items)
            ELSE db_action_items
       /\ uiQueue' =
            IF fault = "none"
            THEN Append(uiQueue, Signal("summary_ready", SummaryResult(d, items), sum_thread.sess))
            ELSE Append(uiQueue, Signal("summary_error", None, sum_thread.sess))
  /\ sum_pc' = "none"
  /\ sum_thread' = NoThread
  /\ UNCHANGED << fixedVars, winVars, audioVars, workers, db_meetings, db_transcripts,
                  session, delivered, sess, calls, read_chunks >>

\* display_summary
DisplaySummary ==
  /\ HeadIs("summary_ready")
  /\ uiQueue' = Tail(uiQueue)
  /\ processing_summary' = FALSE
  /\ summary_display' = Get(Head(uiQueue).arg, "summary_text", "")
  /\ sess' = [sess EXCEPT ![Head(uiQueue).sess].announced = @ + 1]
  /\ UNCHANGED << fixedVars, recording, current_meeting_id, full_transcript,
                  transcript_display, ui_pc, audioVars, workers, sumVars, dbVars,
                  session, faults, delivered, calls, read_chunks >>

\* handle_summary_error
HandleSummaryError ==
  /\ HeadIs("summary_error")
  /\ uiQueue' = Tail(uiQueue)
  /\ processing_summary' = FALSE
  /\ UNCHANGED << fixedVars, recording, current_meeting_id, full_transcript,
                  transcript_display, summary_display, ui_pc, audioVars, workers,
                  sumVars, dbVars, session, faults, delivered, sess, calls, read_chunks >>

\* ------------------------------------------------------------ specification
\* Every step but the start of a recording.
Pipeline ==
  \/ AudioRun
  \/ CaptureOpen
  \/ CaptureStartStream
  \/ CaptureSetCallback
  \/ CaptureResetFrames
  \/ AudioLoopExit
  \/ DeviceCallback
  \/ StopRecording
  \/ HandleAudioError
  \/ StopFinish
  \/ ProcessAudioChunk
  \/ \E w \in workers : WorkerRun(w)
  \/ UpdateTranscription
  \/ SummaryGenerate
  \/ SummaryExtract
  \/ SummaryPersist
  \/ DisplaySummary
  \/ HandleSummaryError

Next == StartRecording \/ Pipeline

Spec == Init /\ [][Next]_vars

\* The first recording of a run, from start to the end of its summary.
NextFirst == (session = 0 /\ StartRecording) \/ Pipeline

SpecFirst == Init /\ [][NextFirst]_vars

\* The steps the program takes by itself once they are possible: the steps of
\* its threads and the handlers of queued signals.  The threads are scheduled
\* by the operating system and the Qt event loop delivers every queued signal
\* while the UI thread is not blocked; the user's start and stop are not forced.
Machine ==
  \/ AudioRun
  \/ CaptureOpen
  \/ CaptureStartStream
  \/ CaptureSetCallback
  \/ CaptureResetFrames
  \/ AudioLoopExit
  \/ HandleAudioError
  \/ StopFinish
  \/ ProcessAudioChunk
  \/ \E w \in workers : WorkerRun(w)
  \/ UpdateTranscription
  \/ SummaryGenerate
  \/ SummaryExtract
  \/ SummaryPersist
  \/ DisplaySummary
  \/ HandleSummaryError

\* The first recording of a run with the program's own steps taken fairly.
SpecFirstFair == SpecFirst /\ WF_vars(Machine)

\* ------------------------------------------- the backends called on their own
Backends == {"remote", "local"}
TranscribeOps == {"transcribe_file", "transcribe_chunk"}

\* One call of one operation of one backend, on a chunk or on a file, with the
\* service behind it answering as `outcome' says.
CallBackend ==
  /\ probe = << >>
  /\ \E backend \in Backends, op \in TranscribeOps, outcome \in Outcomes,
        n \in 1..MaxChunks, kind \in ChunkKinds :
       LET c == Preprocess(RawChunk(n, kind)) IN
       probe' = << [op |-> op, backend |-> backend, outcome |-> outcome,
                    input |-> IF op = "transcribe_chunk" THEN << c >> ELSE << >>,
                    result |-> IF op = "transcribe_chunk"
                               THEN TranscribeChunk(backend, faster_whisper_available, c, outcome)
                               ELSE TranscribeFile(backend, faster_whisper_available, outcome)] >>
  /\ UNCHANGED << use_local_whisper, faster_whisper_available, wav_file, winVars, uiQueue, audioVars,
                  workers, sumVars, dbVars, session, faults, delivered, sess, calls,
                  read_chunks >>

\* Where the remote transcribe_chunk can fail apart from the API call: building
\* the WAV bytes, writing them to the temporary file, removing the file.
ChunkFaults == {"none", "wav_encode", "temp_write", "unlink"}

\* The temporary file of the remote transcribe_chunk once the call is over:
\* "none" when the call failed before NamedTemporaryFile(delete=False) made it,
\* "left" when writing it failed, which is outside the try whose finally
\* unlinks it, or when os.unlink raised, which is swallowed, else "deleted".
TempFileAfter(fault) ==
  CASE fault = "wav_encode" -> "none"
    [] fault \in {"temp_write", "unlink"} -> "left"
    [] OTHER -> "deleted"

\* One call of the remote transcribe_chunk, with its temporary file.
CallRemoteChunk ==
  /\ probe = << >>
  /\ \E outcome \in Outcomes, fault \in ChunkFaults, n \in 1..MaxChunks, kind \in ChunkKinds :
       LET c == Preprocess(RawChunk(n, kind)) IN
       /\ fault \in {"wav_encode", "temp_write"} => outcome = "fail"
       /\ probe' = << [op |-> "remote_transcribe_chunk", backend |-> "remote",
                       outcome |-> outcome, fault |-> fault, input |-> << c >>,
                       result |-> WhisperTranscribeChunk(c, outcome),
                       temp_file |-> TempFileAfter(fault)] >>
  /\ UNCHANGED << use_local_whisper, faster_whisper_available, wav_file, winVars, uiQueue, audioVars,
                  workers, sumVars, dbVars, session, faults, delivered, sess, calls,
                  read_chunks >>

NextBackends == CallBackend \/ CallRemoteChunk

SpecBackends == Init /\ [][NextBackends]_vars

\* ------------------------------------------- an AudioCapture used on its own
\* Where AudioCapture.start_recording can raise.
StartFaults == {"none", "open", "start_stream", "wave_open"}

\* AudioCapture.start_recording(callback=..., save_path=...), the whole call:
\* refused while recording; otherwise the stream is opened and started,
\* is_recording set, the callback and the frame list set, and the WAV file
\* opened when a save path is given. Any exception makes it return False.
CaptureStartRecording ==
  \E callback \in BOOLEAN, save_path \in BOOLEAN, fault \in StartFaults :
    LET started == fault \notin {"open", "start_stream"} IN
    /\ fault = "wave_open" => save_path
    /\ IF is_recording
       THEN /\ fault = "none"
            /\ probe' = << [op |-> "start_recording", busy |-> TRUE, ret |-> FALSE] >>
            /\ UNCHANGED << is_recording, stream, cap_callback, frames, wav_file, faults >>
       ELSE /\ Inject(fault # "none")
            /\ stream' = IF fault = "open" THEN stream ELSE "open"
            /\ is_recording' = started
            /\ cap_callback' = IF started THEN callback ELSE cap_callback
            /\ frames' = IF started THEN << >> ELSE frames
            /\ wav_file' = IF save_path /\ fault = "none" THEN "open" ELSE wav_file
            /\ probe' = << [op |-> "start_recording", busy |-> FALSE, ret |-> fault = "none"] >>
    /\ UNCHANGED << use_local_whisper, faster_whisper_available, winVars, uiQueue,
                    at_pc, running, chunks, workers, sumVars, dbVars, session, delivered,
                    sess, calls, read_chunks >>

\* AudioCapture.stop_recording, the whole call: nothing when not recording;
\* otherwise is_recording is cleared, the stream stopped, closed and cleared,
\* and the WAV file closed. stop_stream or close may raise.
CaptureStopRecording ==
  /\ IF ~is_recording
     THEN /\ probe' = << [op |-> "stop_recording", busy |-> FALSE, ret |-> FALSE] >>
          /\ UNCHANGED << is_recording, stream, wav_file, faults >>
     ELSE \E failed \in BOOLEAN :
            /\ failed => stream = "open"
            /\ Inject(failed)
            /\ is_recording' = FALSE
            /\ stream' = IF failed THEN stream ELSE "none"
            /\ wav_file' = IF failed THEN wav_file ELSE "none"
            /\ probe' = << [op |-> "stop_recording", busy |-> TRUE, ret |-> ~failed] >>
  /\ UNCHANGED << use_local_whisper, faster_whisper_available, winVars, uiQueue,
                  at_pc, running, chunks, cap_callback, frames, workers, sumVars, dbVars,
                  session, delivered, sess, calls, read_chunks >>

NextCapture == CaptureStartRecording \/ DeviceCallback \/ CaptureStopRecording

SpecCapture == Init /\ [][NextCapture]_vars

\* ---------------------------------------------- the engines called on their own
Nows == { [day |-> d, tod |-> "clock"] : d \in 0..6 }

RECURSIVE SeqsUpTo(_, _)
SeqsUpTo(S, n) ==
  IF n = 0 THEN { << >> }
  ELSE LET shorter == SeqsUpTo(S, n - 1)
       IN shorter \cup { Append(q, x) : q \in shorter, x \in S }

\* Raw items of a JSON answer: the assignee absent, null, empty or a name;
\* the due date absent, null or a string.
AssigneeChoices == { << >>, << None >>, << "" >>, << "Bob" >> }
DueChoices == { << >>, << JsonNull >>, << JsonString(<< "tomorrow" >>) >>,
                << JsonString(<< "Not", "specified" >>) >> }
RawItem(a, d) ==
  [k \in {"task"} \cup (IF a = << >> THEN {} ELSE {"assignee"})
                  \cup (IF d = << >> THEN {} ELSE {"due_date"}) |->
     CASE k = "task" -> "t"
       [] k = "assignee" -> a[1]
       [] k = "due_date" -> d[1]]
RawItems == { RawItem(a, d) : a \in AssigneeChoices, d \in DueChoices }

CallSummarize ==
  /\ probe = << >>
  /\ \E outcome \in LlmOutcomes :
       probe' = << [op |-> "summarize", outcome |-> outcome, result |-> Summarize(outcome)] >>
  /\ UNCHANGED << use_local_whisper, faster_whisper_available, wav_file, winVars, uiQueue,
                  audioVars, workers, sumVars, dbVars, session, faults, delivered, sess, calls,
                  read_chunks >>

CallExtractActionItems ==
  /\ probe = << >>
  /\ \E outcome \in LlmOutcomes, raw_items \in SeqsUpTo(RawItems, MaxItems),
        meeting_id \in {NoId, 1}, now \in Nows :
       probe' = << [op |-> "extract_action_items", outcome |-> outcome, input |-> raw_items,
                    meeting_id |-> meeting_id,
                    result |-> ExtractItems(outcome, raw_items, meeting_id, now)] >>
  /\ UNCHANGED << use_local_whisper, faster_whisper_available, wav_file, winVars, uiQueue,
                  audioVars, workers, sumVars, dbVars, session, faults, delivered, sess, calls,
                  read_chunks >>

CallParseDueDate ==
  /\ probe = << >>
  /\ \E words \in SeqsUpTo(Vocabulary, MaxWords), now \in Nows :
       probe' = << [op |-> "parse_due_date", input |-> words, now |-> now,
                    result |-> ParseDueDate(words, now)] >>
  /\ UNCHANGED << use_local_whisper, faster_whisper_available, wav_file, winVars, uiQueue,
                  audioVars, workers, sumVars, dbVars, session, faults, delivered, sess, calls,
                  read_chunks >>

\* The text datetime.isoformat() gives for each time of day.
TimeText == [clock |-> "09:30:00", eod |-> "23:59:59", midnight |-> "00:00:00"]

\* An isoformat that writes the date alone.
IsoFormat_DateOnly(d) == [date |-> d.day, time |-> TimeText["midnight"]]

\* datetime.isoformat(): the date and the time of day as text.
IsoFormat(d) == [date |-> d.day, time |-> TimeText[d.tod]]

\* datetime.fromisoformat on a text isoformat() wrote.
DatetimeFromIso(s) ==
  [day |-> s.date, tod |-> CHOOSE t \in DOMAIN TimeText : TimeText[t] = s.time]

\* ActionItem.to_dict (created_at and item_id are not modelled)
ToDict(a) ==
  [task |-> a.task, assignee |-> a.assignee,
   due_date |-> IF a.due_date # << >> THEN << IsoFormat(a.due_date[1]) >> ELSE << >>,
   meeting_id |-> a.meeting_id, status |-> a.status]

\* ActionItem.from_dict
FromDict(data) ==
  ActionItem(data["task"], Get(data, "assignee", None),
             IF Get(data, "due_date", << >>) # << >>
             THEN << DatetimeFromIso(data["due_date"][1]) >> ELSE << >>,
             Get(data, "meeting_id", NoId), Get(data, "status", "pending"))

\* The ActionItems the round trip is tried on: built by the constructor from
\* any task, assignee, due date and status.
StatusValues == {"pending", "completed", "cancelled"}
DueDates == { << >> } \cup { << [day |-> d, tod |-> t] >> : d \in 0..1, t \in DOMAIN TimeText }
SomeActionItems ==
  { ActionItem(task, assignee, due_date, meeting_id, status) :
      task \in {"", "t"}, assignee \in {None, "", "Bob"}, due_date \in DueDates,
      meeting_id \in {NoId, 1}, status \in StatusValues }

\* ActionItem.from_dict(a.to_dict()) for one ActionItem a.
CallRoundTrip ==
  /\ probe = << >>
  /\ \E a \in SomeActionItems :
       probe' = << [op |-> "round_trip", input |-> a, dict |-> ToDict(a),
                    result |-> FromDict(ToDict(a))] >>
  /\ UNCHANGED << use_local_whisper, faster_whisper_available, wav_file, winVars, uiQueue,
                  audioVars, workers, sumVars, dbVars, session, faults, delivered, sess, calls,
                  read_chunks >>

\* The audio preprocess is tried on: all-zero audio of no, one, frame_length,
\* frame_length + 1 and chunk_size samples, and audio with signal.
ChunkLengths == {0, 1, FrameLength, FrameLength + 1, ChunkSize}
SomeAudio ==
  { AudioChunk(length, kind) : length \in ChunkLengths, kind \in ChunkKinds }
    \ { AudioChunk(0, "speech") }

\* AudioProcessor.preprocess(audio_data) for one array.
CallPreprocess ==
  /\ probe = << >>
  /\ \E audio \in SomeAudio :
       probe' = << [op |-> "preprocess", input |-> audio, result |-> PreprocessAudio(audio)] >>
  /\ UNCHANGED << use_local_whisper, faster_whisper_available, wav_file, winVars, uiQueue,
                  audioVars, workers, sumVars, dbVars, session, faults, delivered, sess, calls,
                  read_chunks >>

NextEngines ==
  CallSummarize \/ CallExtractActionItems \/ CallParseDueDate \/ CallRoundTrip
    \/ CallPreprocess

SpecEngines == Init /\ [][NextEngines]_vars

\* ===================================================================== claims
Sessions == 1..Len(sess)

\* The summary/action-item thread is running, or its result is not handled yet.
Summarizing == sum_pc # "none" \/ processing_summary

\* The transcript row of recording s, if there is one.
PersistedTranscripts(s) == { t \in db_transcripts : t.meeting_id = sess[s].meeting }

\* Recording s has nothing left in the summary thread or on its way to the UI.
SummaryQuiet(s) ==
  /\ sum_thread.sess # s
  /\ \A i \in 1..Len(uiQueue) :
       uiQueue[i].sess = s => uiQueue[i].sig \notin {"summary_ready", "summary_error"}

\* C1: a start request is accepted (the window goes from not recording to
\* recording) only when no recording is in progress, none is being finalized
\* and no summary/action-item thread of an earlier recording is still at work.
C1_NoConcurrentSessions ==
  [][(~recording /\ recording') => (ui_pc = "idle" /\ ~Summarizing)]_vars

\* C2: a recording whose full-file transcription failed ends in the error
\* branch, has no Meeting and no Transcript row, and never reaches the
\* summary/action-item thread.
C2_FailedTranscriptionNotPersisted ==
  \A s \in Sessions :
    sess[s].file = "fail" =>
      /\ sess[s].error
      /\ sess[s].meeting = NoId
      /\ PersistedTranscripts(s) = {}
      /\ sess[s].summary_runs = 0
      /\ sum_thread.sess # s

\* C3: a transcription_ready signal handled when the recording it stems from
\* is no longer the one being recorded changes neither the live transcript
\* nor any record of a session.
C3_LateResultsIgnored ==
  [][(/\ HeadIs("transcription_ready")
      /\ uiQueue' = Tail(uiQueue)
      /\ ~(recording /\ Head(uiQueue).sess = session))
     => /\ transcript_display' = transcript_display
        /\ full_transcript' = full_transcript
        /\ UNCHANGED dbVars]_vars

\* C4: no transcription, summary or action-item call is made on the UI thread.
C4_NoBlockingCallOnUiThread ==
  \A c \in calls : c.thread # "ui"

\* C5: every stopped recording whose full transcript was persisted gets the
\* summary/action-item stage exactly once, and once that stage has nothing left
\* in flight its record is persisted and was announced exactly once.
C5_SummaryExactlyOnce ==
  \A s \in Sessions :
    (sess[s].stopped /\ PersistedTranscripts(s) # {}) =>
      /\ sess[s].summary_runs = 1
      /\ sess[s].announced <= 1
      /\ SummaryQuiet(s) =>
           /\ sess[s].announced = 1
           /\ \E x \in db_summaries : x.meeting_id = sess[s].meeting

\* C6: a stopped recording of all-zero chunks whose full transcript came back
\* empty, with nothing failing on the way, has a Meeting row, a Transcript row
\* with the empty text, and had the summary/action-item stage started on it.
C6_SilentRecordingCompletes ==
  \A s \in Sessions :
    (sess[s].stopped /\ sess[s].silent /\ sess[s].file = "empty" /\ ~sess[s].error) =>
      /\ sess[s].meeting \in db_meetings
      /\ PersistedTranscripts(s) = { [meeting_id |-> sess[s].meeting, full_text |-> ""] }
      /\ sess[s].summary_runs = 1

\* C7: when the LLM call of the summary raised, the transcript row is kept and
\* the summary that is persisted and handed to the UI for the meeting has an
\* empty text and empty lists.
C7_FailedSummaryIsEmpty ==
  \A s \in Sessions :
    sess[s].summarize = "raise" =>
      /\ PersistedTranscripts(s) # {}
      /\ \A x \in db_summaries :
           x.meeting_id = sess[s].meeting =>
             /\ x.summary_text = ""
             /\ x.key_points = << >> /\ x.topics = << >>
             /\ x.decisions = << >> /\ x.questions = << >>
      /\ \A i \in 1..Len(uiQueue) :
           (uiQueue[i].sig = "summary_ready" /\ uiQueue[i].sess = s) =>
             /\ uiQueue[i].arg.summary_text = ""
             /\ uiQueue[i].arg.key_points = << >>
             /\ uiQueue[i].arg.topics = << >>
             /\ uiQueue[i].arg.decisions = << >>

C9_FailureResult ==
  \A i \in 1..Len(probe) :
    probe[i].outcome = "fail" =>
      /\ probe[i].result.text = ""
      /\ probe[i].result.segments = << >>
      /\ "error" \in DOMAIN probe[i].result

RECURSIVE JoinSpace(_)
JoinSpace(texts) ==
  IF texts = << >> THEN ""
  ELSE IF Len(texts) = 1 THEN texts[1]
  ELSE texts[1] \o " " \o JoinSpace(Tail(texts))

\* The live results of recording s that the UI thread has handled already.
Handled(s) ==
  LET pending == Cardinality({ i \in 1..Len(uiQueue) :
                                 uiQueue[i].sig = "transcription_ready" /\ uiQueue[i].sess = s })
  IN SubSeq(sess[s].live, 1, Len(sess[s].live) - pending)

\* The text the full-file pass of recording s returned.
FullFileText(s) ==
  Get(TranscribeFile(StopTranscriber(use_local_whisper, faster_whisper_available),
                     faster_whisper_available, sess[s].file), "text", "")

\* C11: the live display is the non-empty live results handled so far, joined
\* by spaces in the order in which the workers completed, and the persisted
\* transcript is the text of the full-file pass whatever the live results were.
C11_LiveOrderAndFullTranscript ==
  \A s \in Sessions :
    /\ transcript_display = JoinSpace(Handled(s))
    /\ \A t \in PersistedTranscripts(s) : t.full_text = FullFileText(s)

\* C11 happens: two live results were displayed and a transcript was persisted.
C11_Witness ==
  \E s \in Sessions :
    /\ Len(Handled(s)) >= 2
    /\ transcript_display = JoinSpace(Handled(s))
    /\ PersistedTranscripts(s) # {}

\* Some call of this operation was made.
Called(op) == \E c \in calls : c.op = op

\* The summary thread has written a row or told the UI thread something.
SummaryOutput ==
  \/ db_summaries # {}
  \/ db_action_items # << >>
  \/ \E i \in 1..Len(uiQueue) : uiQueue[i].sig \in {"summary_ready", "summary_error"}
  \/ summary_display # None

\* C12: the summary thread exists, and the engines are called, only once the
\* Meeting and Transcript rows of its recording are there; Summary and
\* ActionItem rows and the signal to the UI come only after both engine calls.
C12_StageOrder ==
  /\ sum_pc # "none" =>
       /\ sum_thread.meeting_id \in db_meetings
       /\ \E t \in db_transcripts : t.meeting_id = sum_thread.meeting_id
  /\ (Called("summarize") \/ Called("extract_action_items")) =>
       \E s \in Sessions : sess[s].meeting \in db_meetings /\ PersistedTranscripts(s) # {}
  /\ SummaryOutput => (Called("summarize") /\ Called("extract_action_items"))

\* C12 happens: a summary and an action item were saved and signalled.
C12_Witness ==
  /\ db_summaries # {}
  /\ db_action_items # << >>
  /\ \E i \in 1..Len(uiQueue) : uiQueue[i].sig = "summary_ready"

\* C13: when start_recording, not refused for being busy, returns False, the
\* capture is not marked as recording.
C13_FailedStartNotActive ==
  \A i \in 1..Len(probe) :
    (probe[i].op = "start_recording" /\ ~probe[i].busy /\ ~probe[i].ret) => ~is_recording

\* C14: once the recording thread has ended, whether by stop or by a failure,
\* no device stream is held.
C14_DeviceReleased ==
  at_pc = "finished" => stream = "none"

\* The calls of one operation made on an engine directly.
Probes(op) == { i \in 1..Len(probe) : probe[i].op = op }

\* C15: for an LLM answer that is not JSON, summarize returns the raw text as a
\* non-empty summary, and key_points, topics, decisions and questions are all
\* there and empty.
C15_NotJsonSummary ==
  \A i \in Probes("summarize") :
    probe[i].outcome = "notjson" =>
      /\ "summary" \in DOMAIN probe[i].result
      /\ probe[i].result.summary # ""
      /\ \A k \in {"key_points", "topics", "decisions", "questions"} :
           k \in DOMAIN probe[i].result /\ probe[i].result[k] = << >>

\* C16: extract_action_items returns the empty list for an answer that is not
\* JSON and for a failed LLM call, and an item that cannot be converted makes
\* it return the empty list too: no call ends in an exception.
C16_ExtractNeverRaises ==
  \A i \in Probes("extract_action_items") :
    /\ probe[i].outcome \in {"notjson", "raise"} => probe[i].result = << >>
    /\ probe[i].result # << >> => Len(probe[i].result) = Len(probe[i].input)

\* C16 happens: a call whose answer was not JSON, or which failed, returned.
C16_Witness ==
  \E i \in Probes("extract_action_items") :
    probe[i].outcome \in {"notjson", "raise"} /\ probe[i].input # << >>

\* The raw item has no assignee: the key is absent, null or empty.
NoAssignee(raw) ==
  \/ "assignee" \notin DOMAIN raw
  \/ raw.assignee = None
  \/ raw.assignee = ""

\* C17: every ActionItem returned has status "pending"; its assignee is
\* "Unassigned" when the raw item has none, and the raw assignee otherwise.
C17_PendingAndAssignee ==
  \A i \in Probes("extract_action_items") :
    \A j \in 1..Len(probe[i].result) :
      /\ probe[i].result[j].status = "pending"
      /\ probe[i].result[j].assignee =
           IF NoAssignee(probe[i].input[j]) THEN "Unassigned" ELSE probe[i].input[j].assignee

\* C17 happens: an item without assignee and an item with one were returned.
C17_Witness ==
  \E i \in Probes("extract_action_items") :
    /\ Len(probe[i].result) = 2
    /\ "assignee" \in DOMAIN probe[i].input[1] /\ probe[i].input[1].assignee = None
    /\ ~NoAssignee(probe[i].input[2])

\* C18: the action-item rows a summary thread writes carry the meeting id of
\* the recording it was started for, and the items it has extracted carry no
\* meeting id before they are written.
C18_MeetingIdOnItems ==
  [][/\ \A i \in (Len(db_action_items) + 1)..Len(db_action_items') :
          db_action_items'[i].meeting_id = sess[sum_thread.sess].meeting
     /\ \A i \in 1..Len(sum_thread'.action_items) :
          sum_thread'.action_items[i].meeting_id = NoId]_vars

\* The string names weekday w (0 is Monday), no other weekday, and nothing an
\* earlier rule looks for.
NamesOnlyDay(words, w) ==
  /\ words \notin Sentinels
  /\ FromIsoFormat(words) = << >>
  /\ ~HasWord(words, "today") /\ ~HasWord(words, "tomorrow")
  /\ ~HasPhrase(words, "next", "week") /\ ~HasPhrase(words, "next", "month")
  /\ \A d \in 1..7 : HasWord(words, DayNames[d]) <=> d = w + 1

\* C19: a due date naming weekday w, parsed on weekday c, is the end of the
\* day d days later, d being (w - c) mod 7, or 7 when that is 0: d is in 1..7,
\* the day is a w, and it is not the current day.
C19_WeekdayAhead ==
  \A i \in Probes("parse_due_date") :
    \A w \in 0..6 :
      NamesOnlyDay(probe[i].input, w) =>
        LET c == probe[i].now.day % 7
            m == (w - c) % 7
            d == IF m # 0 THEN m ELSE 7
        IN /\ probe[i].result = << [day |-> probe[i].now.day + d, tod |-> "eod"] >>
           /\ d \in 1..7
           /\ (probe[i].now.day + d) % 7 = w
           /\ probe[i].result[1].day # probe[i].now.day

\* C19 happens: the weekday named is the current one, and the date is a week on.
C19_Witness ==
  \E i \in Probes("parse_due_date") :
    /\ NamesOnlyDay(probe[i].input, probe[i].now.day % 7)
    /\ probe[i].result = << [day |-> probe[i].now.day + 7, tod |-> "eod"] >>

\* The rules of the parser in their order of precedence: whether rule k
\* matches the string, and what it gives.
RuleMatches(k, words) ==
  CASE k = 1 -> words \in Sentinels
    [] k = 2 -> FromIsoFormat(words) # << >>
    [] k = 3 -> HasWord(words, "today")
    [] k = 4 -> HasWord(words, "tomorrow")
    [] k = 5 -> HasPhrase(words, "next", "week")
    [] k = 6 -> HasPhrase(words, "next", "month")
    [] k = 7 -> \E d \in 1..7 : HasWord(words, DayNames[d])
    [] k = 8 -> DateScan(words) # << >>

RuleResult(k, words, now) ==
  CASE k = 1 -> << >>
    [] k = 2 -> FromIsoFormat(words)
    [] k = 3 -> EndOfDay(now, 0)
    [] k = 4 -> EndOfDay(now, 1)
    [] k = 5 -> Later(now, 7)
    [] k = 6 -> Later(now, 30)
    [] k = 7 -> EndOfDay(now, DaysAhead(FirstDayNamed(words) - 1, now.day % 7))
    [] k = 8 -> DateScan(words)

\* C20: the result is the one of the first rule, in the order sentinel, ISO
\* date, today, tomorrow, next week, next month, weekday name, date scan, that
\* matches the string, and None when no rule matches.
C20_FirstMatchWins ==
  \A i \in Probes("parse_due_date") :
    LET words == probe[i].input
        matching == { k \in 1..8 : RuleMatches(k, words) }
    IN IF matching = {}
       THEN probe[i].result = << >>
       ELSE \E k \in matching :
              /\ \A j \in matching : k <= j
              /\ probe[i].result = RuleResult(k, words, probe[i].now)

\* C20 happens: a string with a relative word and a weekday name resolved by
\* the relative word.
C20_Witness ==
  \E i \in Probes("parse_due_date") :
    /\ RuleMatches(4, probe[i].input) /\ RuleMatches(7, probe[i].input)
    /\ probe[i].result = EndOfDay(probe[i].now, 1)

\* C21: for every ActionItem a, ActionItem.from_dict(a.to_dict()) has the task,
\* assignee, status and due_date of a, a null due_date and every status value
\* included.
C21_RoundTrip ==
  \A i \in Probes("round_trip") :
    /\ probe[i].result.task = probe[i].input.task
    /\ probe[i].result.assignee = probe[i].input.assignee
    /\ probe[i].result.status = probe[i].input.status
    /\ probe[i].result.due_date = probe[i].input.due_date

\* C21 happens: an item with a due date at the end of a day, not pending, went
\* through to_dict and from_dict.
C21_Witness ==
  \E i \in Probes("round_trip") :
    /\ probe[i].input.due_date # << >>
    /\ probe[i].input.due_date[1].tod = "eod"
    /\ probe[i].input.status = "cancelled"
    /\ probe[i].dict.due_date # << >>
    /\ probe[i].result.assignee = "Unassigned"

\* C22: for audio in which every sample is zero, of any length, preprocess
\* returns it unchanged (same length, all zeros) and divides by nothing.
C22_ZeroChunkUnchanged ==
  \A i \in Probes("preprocess") :
    probe[i].input.kind = "zero" =>
      /\ probe[i].result.length = probe[i].input.length
      /\ probe[i].result.kind = "zero"
      /\ probe[i].result.divisor = << >>

\* C23: after the remote transcribe_chunk has returned, on every path, the
\* temporary audio file it created no longer exists.
C23_TempFileDeleted ==
  \A i \in Probes("remote_transcribe_chunk") : probe[i].temp_file # "left"

\* The samples the device delivered for a stored chunk, and the samples
\* audio_callback stored for it.
RawAudio(c) == AudioChunk(ChunkSize, c.kind)
StoredAudio(c) == PreprocessAudio(RawAudio(c))

\* C24: the audio stop_recording hands to the full-file transcription is the
\* raw chunks in capture order: for each chunk every sample is there, not
\* rescaled and not trimmed away.
C24_FullFileAudioIsRaw ==
  read_chunks # << >> =>
    /\ \A i, j \in 1..Len(read_chunks[1]) : i < j => read_chunks[1][i].n < read_chunks[1][j].n
    /\ \A i \in 1..Len(read_chunks[1]) :
         /\ StoredAudio(read_chunks[1][i]).length = RawAudio(read_chunks[1][i]).length
         /\ StoredAudio(read_chunks[1][i]).divisor = << >>
         /\ ~read_chunks[1][i].trimmed_to_empty

\* C25: once process_summary has set processing_summary, the summary thread
\* ends with one of its two signals and the flag returns to False.
C25_SummaryFlagReturns == processing_summary ~> ~processing_summary

\* C26: a stop_recording invoked while recording always ends, with the
\* recording flag False and the UI thread free to start the next recording.
C26_StopAlwaysEnds == (ui_pc = "stop_wait") ~> (ui_pc = "idle" /\ ~recording)

\* C27: whenever stop_recording is not in progress, every Meeting row has a
\* Transcript row, also after a persistence call failed.
C27_MeetingHasTranscript ==
  ui_pc = "idle" =>
    \A m \in db_meetings : \E t \in db_transcripts : t.meeting_id = m

\* C28: every chunk the device callback accepted while is_recording was set is
\* in the recorded frames and was passed to the registered callback, which
\* stored it, however start_recording and the device callback interleave.
C28_NoAcceptedChunkLost ==
  \A n \in 1..delivered :
    /\ \E i \in 1..Len(frames) : frames[i].n = n
    /\ \E i \in 1..Len(chunks) : chunks[i].n = n

\* C29: for an answer that is valid JSON, extract_action_items returns one
\* ActionItem per raw item, in order; a raw item with a null due date gets no
\* due date and the other items are what they are without it.
C29_OneItemPerElement ==
  \A i \in Probes("extract_action_items") :
    probe[i].outcome = "json" =>
      /\ Len(probe[i].result) = Len(probe[i].input)
      /\ \A j \in 1..Len(probe[i].input) :
           /\ j <= Len(probe[i].result)
           /\ probe[i].result[j].task = Get(probe[i].input[j], "task", "")
           /\ Get(probe[i].input[j], "due_date", JsonNull).null =>
                probe[i].result[j].due_date = << >>

\* C30: when stop_recording finds that no chunk was captured, it creates no
\* Meeting, Transcript, Summary or ActionItem row, makes no transcription or
\* engine call and starts no summary, and leaves the window idle, not
\* recording and able to start again.
C30_NoAudioStopIsClean ==
  [][(ui_pc = "stop_wait" /\ ui_pc' # "stop_wait" /\ chunks = << >>) =>
       /\ UNCHANGED << dbVars, calls, sumVars, full_transcript, current_meeting_id,
                       processing_summary, workers, uiQueue >>
       /\ ui_pc' = "idle"
       /\ ~recording'
       /\ CanStart']_vars

\* C30 happens: a recording was stopped with no chunk captured, and the window
\* is idle again.
C30_Witness ==
  /\ read_chunks = << << >> >>
  /\ session >= 1
  /\ sess[session].stopped
  /\ ui_pc = "idle"
  /\ ~recording

====
